---- MODULE Spec2Model ----
(***************************************************************************)
(* saml_app_notification: certificate-expiration extraction                *)
(* (registry.py), the deadline filter, contact resolution, the e-mail      *)
(* aggregator (emailer.py) and the run of notify_app_owners.py.            *)
(*                                                                         *)
(* Timestamps are integers (ticks); None is Python's None.  A Contact is   *)
(* an object: it carries the identity (id) the interpreter gave it and its *)
(* two fields.  The SMTP transport and the template engine are reliable    *)
(* collaborators: a hand-off is recorded, never refused.                   *)
(***************************************************************************)
EXTENDS Integers, Sequences, FiniteSets, TLC

\* ---------------------------------------------------------------- bounds
MaxCerts == 3          \* certificates in one definition (SpecCert)
MaxDate == 2           \* largest timestamp
MaxRegs == 2           \* registrations fetched by get_apps (SpecFetch)
MaxApps == 2           \* registrations fetched in one run (Spec)
MaxCeiling == 2        \* largest configured max_emails_to_send
MaxReads == 3          \* reads of app.contacts (SpecContacts)

None == 0
TicksPerDay == 2

Dates == 1..MaxDate

VARIABLES
    pc,                 \* position of the run / of the operation applied
    definition,         \* SpecCert: the XML definition handed to App()
    expiration,         \* SpecCert: what _get_expiration_date produced
    provider,           \* the registry's answer to the provider query
    saml_apps,          \* the registrations the registry holds
    all_apps,           \* the AppList get_apps built
    apps,               \* the AppList expiring_by returned
    deadline,           \* now + min_certificate_longevity
    max_emails_to_send, \* Config.max_emails_to_send
    dry_run,            \* Config.dry_run / Emailer._dry_run
    server,             \* Emailer._server
    messages,           \* Emailer._messages, in insertion order
    contact,            \* App._contact of each application of apps
    next_id,            \* identity the next Contact object gets
    i,                  \* index of the application the add loop is at
    j,                  \* index of the bucket send_all is at
    sent,               \* messages handed to the SMTP session
    printed,            \* messages printed in dry mode
    records,            \* per application of apps: records the directory returned
    exception,          \* the exception that ended the operation or the run
    exit_status,        \* how the process ended
    queries,            \* per application: Application queries sent to the directory
    returned,           \* SpecContacts: the lists the reads of contacts returned
    gate_evals          \* how often the ceiling was compared with num_messages()

vars == <<pc, definition, expiration, provider, saml_apps, all_apps, apps,
          deadline, max_emails_to_send, dry_run, server, messages, contact,
          next_id, i, j, sent, printed, records, exception, exit_status,
          queries, returned, gate_evals>>

certVars == <<definition, expiration>>
fetchVars == <<provider, saml_apps, all_apps, apps, deadline>>
runVars == <<max_emails_to_send, dry_run, server, messages, contact, next_id,
             i, j, sent, printed, records, exception, exit_status, queries,
             returned, gate_evals>>

\* ------------------------------------------------------------ sequences
RECURSIVE SeqsUpTo(_, _)
SeqsUpTo(S, n) ==
    IF n = 0 THEN {<<>>}
    ELSE LET shorter == SeqsUpTo(S, n - 1)
         IN shorter \cup {Append(s, x) : s \in {t \in shorter : Len(t) = n - 1}, x \in S}

Min(a, b) == IF a <= b THEN a ELSE b

\* ------------------------------------------- certificates (registry.py)
\* One <ds:X509Certificate> element of a definition:
\*   NoText      the element is empty, so cert.text is None
\*   Undecodable crypto.load_certificate raises crypto.Error
\*   NoNotAfter  the certificate decodes and get_notAfter() returns nothing
\*   Valid       the certificate decodes and expires at notAfter
Certificates ==
    {[kind |-> k, notAfter |-> None] : k \in {"NoText", "Undecodable", "NoNotAfter"}}
        \cup {[kind |-> "Valid", notAfter |-> d] : d \in Dates}

\* An XML definition: whether et.fromstring parses it, and the certificate
\* elements root.findall returns, in document order.
Malformed == [wellformed |-> FALSE, certs |-> <<>>]

Definitions(n) ==
    {Malformed} \cup {[wellformed |-> TRUE, certs |-> c] : c \in SeqsUpTo(Certificates, n)}

\* One iteration of the loop over certificates: the exception it raises
\* ("none" when it raises nothing) and earliest_expiration_date after it.
CertStep(earliest, cert) ==
    CASE cert.kind = "NoText" ->
            \* cert.text.replace on None
            [exc |-> "AttributeError", earliest |-> earliest]
      [] cert.kind = "Undecodable" ->
            \* except crypto.Error: continue
            [exc |-> "none", earliest |-> earliest]
      [] cert.kind = "NoNotAfter" ->
            \* if not cert_expiration: continue
            [exc |-> "none", earliest |-> earliest]
      [] OTHER ->
            [exc |-> "none",
             earliest |-> IF earliest /= None
                          THEN Min(cert.notAfter, earliest)
                          ELSE cert.notAfter]

\* The loop from certificate n on: what it raises, the value it returns
\* and how many certificates it went through.
RECURSIVE CertLoop(_, _, _)
CertLoop(certs, n, earliest) ==
    IF n > Len(certs)
    THEN [exc |-> "none", value |-> earliest, evaluated |-> n - 1]
    ELSE LET s == CertStep(earliest, certs[n])
         IN IF s.exc /= "none"
            THEN [exc |-> s.exc, value |-> None, evaluated |-> n - 1]
            ELSE CertLoop(certs, n + 1, s.earliest)

\* App._get_expiration_date(definition)
GetExpirationDate(def) ==
    IF ~def.wellformed
    THEN [exc |-> "ParseError", value |-> None, evaluated |-> 0]
    ELSE IF def.certs = <<>>
    THEN [exc |-> "none", value |-> None, evaluated |-> 0]
    ELSE CertLoop(def.certs, 1, None)

\* ------------------------------------------ SamlRegistry / AppList (registry.py)
\* What the registry answers to the provider query: a list of records,
\* each with or without the field id.
ProviderAnswers == SeqsUpTo({[has_id |-> TRUE], [has_id |-> FALSE]}, 2)

\* The check of the provider answer and the read of provider[0]['id']:
\* the exception it raises, "none" when the provider id is obtained.
\* The condition's right operand is evaluated only when the left one holds,
\* and provider[0] of an empty list raises IndexError.
ProviderCheck(p) ==
    IF Len(p) /= 1
    THEN IF Len(p) = 0 THEN "IndexError"
         ELSE IF ~p[1].has_id THEN "ValueError"
         ELSE "none"
    ELSE IF p[1].has_id THEN "none" ELSE "KeyError"

\* The registrations the registry holds: applicationId is the position.
Registrations(defs, n) ==
    {[k \in 1..Len(ds) |-> [applicationId |-> k, definition |-> ds[k]]] :
        ds \in SeqsUpTo(defs, n)}

\* The loop of get_apps from registration n on, with the AppList built so far:
\* a definition that does not parse is skipped, any other exception of App()
\* leaves get_apps.
RECURSIVE AppsLoop(_, _, _)
AppsLoop(regs, n, built) ==
    IF n > Len(regs)
    THEN [exc |-> "none", apps |-> built]
    ELSE LET r == GetExpirationDate(regs[n].definition)
         IN IF r.exc = "ParseError"
            THEN AppsLoop(regs, n + 1, built)
            ELSE IF r.exc /= "none"
            THEN [exc |-> r.exc, apps |-> <<>>]
            ELSE AppsLoop(regs, n + 1,
                          Append(built, [id |-> regs[n].applicationId,
                                         expiration_date |-> r.value]))

\* SamlRegistry.get_apps(), the registry answering p and then regs.
GetApps(p, regs) ==
    IF ProviderCheck(p) /= "none"
    THEN [exc |-> ProviderCheck(p), apps |-> <<>>]
    ELSE AppsLoop(regs, 1, <<>>)

\* expiring_by with the deadline itself left out.
ExpiresBefore(app, d) == app.expiration_date /= None /\ app.expiration_date < d

\* The test of expiring_by on one application.
ExpiresBy(app, d) == app.expiration_date /= None /\ app.expiration_date <= d

\* AppList.expiring_by(deadline): the loop from application n on.
RECURSIVE ExpiringFrom(_, _, _, _)
ExpiringFrom(list, d, n, filtered) ==
    IF n > Len(list) THEN filtered
    ELSE ExpiringFrom(list, d, n + 1,
                      IF ExpiresBy(list[n], d) THEN Append(filtered, list[n])
                      ELSE filtered)

ExpiringBy(list, d) == ExpiringFrom(list, d, 1, <<>>)

\* ------------------------------------------------ contacts (registry.py)
\* The identities and the administrator groups of the directory, as the
\* fields the code reads: primaryAccountEmail ("" when empty) and displayName.
Identities ==
    {[email |-> "alice@example.com", name |-> "Alice"],
     [email |-> "bob@example.com", name |-> "Bob"],
     [email |-> "", name |-> "Carol"]}

Groups ==
    {[email |-> "admins@example.com", name |-> "Admins"],
     [email |-> "", name |-> "Staff"]}

Unlinked == [linked |-> FALSE, email |-> "", name |-> ""]

Linked(S) == {[linked |-> TRUE, email |-> r.email, name |-> r.name] : r \in S}

\* How a fetch of an identity or a group ends: auth_api_get returns the
\* record, or the fetch raises (the request fails, or the record lacks a
\* field the code subscripts).
Fetches == {"ok", "raises"}

\* What the directory answers for one application: n records for the
\* Application query and, for the first record, the identity behind ownerId
\* and the group behind administratorsId (Unlinked when the field is empty)
\* with the way their fetches end.
DirectoryAnswers ==
    [n : {0, 1, 2},
     owner : {Unlinked} \cup Linked(Identities),
     admin : {Unlinked} \cup Linked(Groups),
     owner_fetch : Fetches,
     admin_fetch : Fetches]

\* Contact(email, name), the object the interpreter creates with identity id.
Contact(id, email, name) == [id |-> id, email |-> email, name |-> name]

\* Contact defines neither __eq__ nor __hash__: two contacts are the same
\* dictionary key exactly when they are the same object.
ContactEq(c1, c2) == c1.id = c2.id

\* A lookup that only fails on an empty answer and takes the first of several.
LookupFailsWhenEmpty(n) == n = 0

\* len(application_data) != 1
LookupFails(n) == n /= 1

\* self._contact: None (resolved is FALSE) or a list.
Unresolved == [resolved |-> FALSE, list |-> <<>>]

Cached(list) == [resolved |-> TRUE, list |-> list]

\* The body of the contacts property when self._contact is None: the
\* exception it raises, the list it returns, what it leaves in self._contact
\* and the next free identity.  self._contact becomes the empty list before
\* the owner is fetched and grows by append.
ResolveContacts(ans, id) ==
    IF LookupFails(ans.n)
    THEN [exc |-> "ValueError", list |-> <<>>, cache |-> Unresolved, next_id |-> id]
    ELSE IF ans.owner.linked /\ ans.owner_fetch = "raises"
    THEN [exc |-> "FetchError", list |-> <<>>, cache |-> Cached(<<>>), next_id |-> id]
    ELSE LET owner == IF ans.owner.linked /\ ans.owner.email /= ""
                      THEN <<Contact(id, ans.owner.email, ans.owner.name)>>
                      ELSE <<>>
             id2 == id + Len(owner)
             admin == IF ans.admin.linked /\ ans.admin.email /= ""
                      THEN <<Contact(id2, ans.admin.email, ans.admin.name)>>
                      ELSE <<>>
         IN IF ans.admin.linked /\ ans.admin_fetch = "raises"
            THEN [exc |-> "FetchError", list |-> <<>>, cache |-> Cached(owner),
                  next_id |-> id2]
            ELSE [exc |-> "none", list |-> owner \o admin,
                  cache |-> Cached(owner \o admin), next_id |-> id2 + Len(admin)]

\* A property that resolves on every read.
NeverCached(cache) == TRUE

\* if self._contact is None
IsNone(cache) == ~cache.resolved

\* One read of app.contacts: the exception it raises, the list it returns,
\* self._contact afterwards, the next free identity and the number of
\* Application queries it sent.
ContactsRead(cache, ans, id) ==
    IF IsNone(cache)
    THEN LET r == ResolveContacts(ans, id)
         IN [exc |-> r.exc, value |-> r.list, cache |-> r.cache,
             next_id |-> r.next_id, queried |-> 1]
    ELSE [exc |-> "none", value |-> cache.list, cache |-> cache,
          next_id |-> id, queried |-> 0]

\* ---------------------------------------------------- Emailer (emailer.py)
\* _messages is a sequence of buckets [key, apps] in insertion order.
KeyIndices(batch, c) == {k \in 1..Len(batch) : ContactEq(batch[k].key, c)}

\* One iteration of the loop of add.
AddContact(batch, c, app) ==
    IF KeyIndices(batch, c) = {}
    THEN Append(batch, [key |-> c, apps |-> <<app>>])
    ELSE [k \in 1..Len(batch) |->
            IF k \in KeyIndices(batch, c)
            THEN [batch[k] EXCEPT !.apps = Append(batch[k].apps, app)]
            ELSE batch[k]]

\* A loop that returns after its first iteration.
AddFirstContact(batch, list, n, app) ==
    IF n > Len(list) THEN batch ELSE AddContact(batch, list[n], app)

\* The loop of add over app.contacts from contact n on.
RECURSIVE AddContacts(_, _, _, _)
AddContacts(batch, list, n, app) ==
    IF n > Len(list) THEN batch
    ELSE AddContacts(AddContact(batch, list[n], app), list, n + 1, app)

\* An add that files an application without contacts under a bucket of its
\* own.
AddOrphaned(batch, list, app) ==
    IF list = <<>>
    THEN Append(batch, [key |-> Contact(0, "", ""), apps |-> <<app>>])
    ELSE AddContacts(batch, list, 1, app)

\* Emailer.add(app) once app.contacts returned list: the test "is None" is
\* false for any list, the empty one included, and the loop runs over it.
AddApp(batch, list, app) == AddContacts(batch, list, 1, app)

\* Emailer.num_messages()
NumMessages(batch) == Len(batch)

\* app._expiration_date.strftime("%Y-%m-%d") if app._expiration_date else "N/A":
\* the day of the timestamp, None standing for "N/A".
Strftime(t) == IF t /= None THEN t \div TicksPerDay ELSE None

\* Emailer._prepare_message(recipient, apps): the addressee and the context
\* handed to the template.
PrepareMessage(recipient, list) ==
    [to |-> recipient.email,
     recipient |-> [email |-> recipient.email, name |-> recipient.name],
     apps |-> [k \in 1..Len(list) |->
                  [id |-> list[k].id, expiration |-> Strftime(list[k].expiration_date)]]]

\* A loop that stops before the last element.
LoopDoneEarly(k, list) == k >= Len(list)

\* for app in apps: the loop is over once k is past the last element.
LoopDone(k, list) == k > Len(list)

\* A gate that lets one message more than the ceiling through.
ExceedsByTwo(n, max) == n > max + 1

\* emailer.num_messages() > config.max_emails_to_send
Exceeds(n, max) == n > max

\* -------------------------------------------------------------- SpecCert
\* App(app_id, definition) on every definition of up to MaxCerts
\* certificates.
NotRun == [exc |-> "none", value |-> None, evaluated |-> 0]

IdleFetch ==
    /\ provider = <<>>
    /\ saml_apps = <<>>
    /\ all_apps = <<>>
    /\ apps = <<>>
    /\ deadline = None

IdleRun ==
    /\ max_emails_to_send = 0
    /\ dry_run = TRUE
    /\ server = "None"
    /\ messages = <<>>
    /\ contact = <<>>
    /\ next_id = 1
    /\ i = 0
    /\ j = 0
    /\ sent = <<>>
    /\ printed = <<>>
    /\ records = <<>>
    /\ exception = "none"
    /\ exit_status = "running"
    /\ queries = <<>>
    /\ returned = <<>>
    /\ gate_evals = 0

IdleCert ==
    /\ definition = Malformed
    /\ expiration = NotRun

InitCert ==
    /\ pc = "new_app"
    /\ definition \in Definitions(MaxCerts)
    /\ expiration = NotRun
    /\ IdleFetch
    /\ IdleRun

\* App.__init__: self._expiration_date = self._get_expiration_date(definition)
NewApp ==
    /\ pc = "new_app"
    /\ expiration' = GetExpirationDate(definition)
    /\ pc' = IF expiration'.exc = "none" THEN "constructed" ELSE "raised"
    /\ UNCHANGED <<definition, fetchVars, runVars>>

NextCert == NewApp

SpecCert == InitCert /\ [][NextCert]_vars

\* ----------------------------------------------- claims on App() (SpecCert)
Indices(certs, kinds) == {k \in 1..Len(certs) : certs[k].kind \in kinds}

\* The notAfter values of the certificates that decode and carry one.
DecodedDates(certs) == {certs[k].notAfter : k \in Indices(certs, {"Valid"})}

Least(S) == CHOOSE m \in S : \A x \in S : m <= x

EarliestOf(certs) ==
    IF DecodedDates(certs) = {} THEN None ELSE Least(DecodedDates(certs))

AppEnded == pc \in {"constructed", "raised"}

\* C3: for any well-formed definition, App() computes an expirationDate, and
\* it is the least notAfter of the certificates that decode, or none when no
\* certificate decodes (no certificate element, or none decodable).
C3_EarliestOfDecodable ==
    (AppEnded /\ definition.wellformed) =>
        /\ expiration.exc = "none"
        /\ expiration.value = EarliestOf(definition.certs)

\* The definition without the certificates that cannot be used.
WithoutFailing(def) ==
    [def EXCEPT !.certs = SelectSeq(def.certs, LAMBDA c : c.kind = "Valid")]

\* C4: a certificate that cannot be decoded, at any position, is skipped
\* without raising: the extraction finishes, every certificate of the
\* definition is gone through, and the result is that of the definition
\* without the failing certificates.
C4_FailingCertSkipped ==
    (AppEnded /\ definition.wellformed) =>
        /\ expiration.exc = "none"
        /\ expiration.evaluated = Len(definition.certs)
        /\ expiration.value = GetExpirationDate(WithoutFailing(definition)).value

\* ------------------------------------------------------------- SpecFetch
\* SamlRegistry.get_apps().expiring_by(deadline) on every registry content of
\* up to MaxRegs registrations, each definition with at most one certificate.
InitFetch ==
    /\ pc = "get_apps"
    /\ provider = <<>>
    /\ saml_apps \in Registrations(Definitions(1), MaxRegs)
    /\ all_apps = <<>>
    /\ apps = <<>>
    /\ deadline \in Dates
    /\ IdleCert
    /\ IdleRun

GetAppsCall ==
    /\ pc = "get_apps"
    /\ \E p \in ProviderAnswers :
        LET r == GetApps(p, saml_apps)
        IN /\ provider' = p
           /\ all_apps' = r.apps
           /\ exception' = r.exc
           /\ pc' = IF r.exc = "none" THEN "expiring_by" ELSE "raised"
    /\ UNCHANGED <<certVars, saml_apps, apps, deadline, max_emails_to_send,
                   dry_run, server, messages, contact, next_id, i, j, sent,
                   printed, records, exit_status, queries, returned, gate_evals>>

ExpiringByCall ==
    /\ pc = "expiring_by"
    /\ apps' = ExpiringBy(all_apps, deadline)
    /\ pc' = "filtered"
    /\ UNCHANGED <<certVars, provider, saml_apps, all_apps, deadline, runVars>>

NextFetch == GetAppsCall \/ ExpiringByCall

SpecFetch == InitFetch /\ [][NextFetch]_vars

\* ------------------------------------------ claims on the fetch (SpecFetch)
Ids(list) == {list[k].id : k \in 1..Len(list)}

Ascending(list) == \A k, l \in 1..Len(list) : k < l => list[k].id < list[l].id

\* C5: expiring_by(deadline) returns exactly the applications of the list
\* whose expirationDate is not none and is <= deadline, in the order of the
\* list: one expiring exactly at the deadline is in, one expiring a tick
\* later is out, one without expirationDate is out.
C5_ExpiringBySubsequence ==
    pc = "filtered" =>
        /\ \A k \in 1..Len(all_apps) :
              (\E l \in 1..Len(apps) : apps[l] = all_apps[k])
                  <=> (all_apps[k].expiration_date \in Dates
                       /\ ~(all_apps[k].expiration_date > deadline))
        /\ \A l \in 1..Len(apps) : \E k \in 1..Len(all_apps) : apps[l] = all_apps[k]
        /\ Ascending(apps)

\* An application expiring exactly at the deadline is returned while one
\* expiring a tick later, or one without expirationDate, is left out.
C5_Witness ==
    /\ pc = "filtered"
    /\ \E l \in 1..Len(apps) : apps[l].expiration_date = deadline
    /\ \E k \in 1..Len(all_apps) :
          /\ all_apps[k].expiration_date \in {None, deadline + 1}
          /\ all_apps[k].id \notin Ids(apps)

WellFormedIds(regs) ==
    {regs[k].applicationId : k \in {n \in 1..Len(regs) : regs[n].definition.wellformed}}

\* C10: a definition that is not well-formed never aborts the run: whatever
\* registrations were fetched, get_apps returns, and returns exactly the
\* applications with well-formed definitions, in fetch order.
C10_MalformedSkipped ==
    (pc \in {"raised", "expiring_by", "filtered"} /\ ProviderCheck(provider) = "none") =>
        /\ exception = "none"
        /\ Ids(all_apps) = WellFormedIds(saml_apps)
        /\ Len(all_apps) = Cardinality(WellFormedIds(saml_apps))
        /\ Ascending(all_apps)

\* C18: get_apps fails with the ValueError "Error accessing SAML provider ID"
\* whenever the provider query does not return exactly one record carrying
\* an id (zero records, several records, or a record without id), and in
\* that case fetches no registration: no application is built.
C18_ProviderMustBeUnique ==
    (pc /= "get_apps" /\ ~(Len(provider) = 1 /\ provider[1].has_id))
    => /\ pc = "raised"
       /\ exception = "ValueError"
       /\ all_apps = <<>>

\* ------------------------------------------------------------------ Spec
\* One run of notify_app_owners.py, from the constructed Emailer on, over a
\* registry of up to MaxApps registrations.  A definition of the run has no
\* certificate, one empty certificate element or one valid certificate.
RunDefinitions ==
    {Malformed, [wellformed |-> TRUE, certs |-> <<>>]}
        \cup {[wellformed |-> TRUE, certs |-> <<c>>] :
                c \in {x \in Certificates : x.kind \in {"NoText", "Valid"}}}

NotAsked == 0 - 1

Init ==
    /\ pc = "main"
    /\ IdleCert
    /\ provider = <<>>
    /\ saml_apps \in Registrations(RunDefinitions, MaxApps)
    /\ all_apps = <<>>
    /\ apps = <<>>
    /\ deadline \in Dates
    /\ max_emails_to_send \in 0..MaxCeiling
    /\ dry_run \in BOOLEAN
    /\ server = IF dry_run THEN "None" ELSE "SMTP"
    /\ messages = <<>>
    /\ contact = <<>>
    /\ next_id = 1
    /\ i = 0
    /\ j = 0
    /\ sent = <<>>
    /\ printed = <<>>
    /\ records = <<>>
    /\ exception = "none"
    /\ exit_status = "running"
    /\ queries = <<>>
    /\ returned = <<>>
    /\ gate_evals = 0

\* apps = SamlRegistry.get_apps().expiring_by(deadline); exit 0 when empty.
FetchExpiring ==
    /\ pc = "main"
    /\ \E p \in ProviderAnswers :
        LET r == GetApps(p, saml_apps)
            expiring == ExpiringBy(r.apps, deadline)
        IN IF r.exc /= "none"
           THEN /\ pc' = "crashed"
                /\ exception' = r.exc
                /\ exit_status' = "1"
                /\ UNCHANGED <<all_apps, apps, contact, records, i, queries>>
           ELSE /\ all_apps' = r.apps
                /\ apps' = expiring
                /\ contact' = [k \in 1..Len(expiring) |-> Unresolved]
                /\ records' = [k \in 1..Len(expiring) |-> NotAsked]
                /\ queries' = [k \in 1..Len(expiring) |-> 0]
                /\ exception' = "none"
                /\ IF Len(expiring) = 0
                   THEN pc' = "exited" /\ exit_status' = "0" /\ i' = i
                   ELSE pc' = "add" /\ exit_status' = exit_status /\ i' = 1
    /\ UNCHANGED <<certVars, provider, saml_apps, deadline, max_emails_to_send,
                   dry_run, server, messages, next_id, j, sent, printed,
                   returned, gate_evals>>

\* emailer.add(app) for the next application of apps: the read of
\* app.contacts in the test "is None" resolves them (or raises), the test is
\* false for the list it returned, and the loop reads app.contacts again.
Add ==
    /\ pc = "add"
    /\ i <= Len(apps)
    /\ \E ans \in DirectoryAnswers :
        LET tested == ContactsRead(contact[i], ans, next_id)
            looped == ContactsRead(tested.cache, ans, tested.next_id)
        IN /\ records' = [records EXCEPT ![i] = IF tested.queried = 0 THEN @ ELSE ans.n]
           /\ IF tested.exc /= "none"
              THEN /\ pc' = "crashed"
                   /\ exception' = tested.exc
                   /\ exit_status' = "1"
                   /\ contact' = [contact EXCEPT ![i] = tested.cache]
                   /\ queries' = [queries EXCEPT ![i] = @ + tested.queried]
                   /\ next_id' = tested.next_id
                   /\ UNCHANGED <<messages, i>>
              ELSE IF looped.exc /= "none"
              THEN /\ pc' = "crashed"
                   /\ exception' = looped.exc
                   /\ exit_status' = "1"
                   /\ contact' = [contact EXCEPT ![i] = looped.cache]
                   /\ queries' = [queries EXCEPT ![i] = @ + tested.queried + looped.queried]
                   /\ next_id' = looped.next_id
                   /\ UNCHANGED <<messages, i>>
              ELSE /\ contact' = [contact EXCEPT ![i] = looped.cache]
                   /\ queries' = [queries EXCEPT ![i] = @ + tested.queried + looped.queried]
                   /\ messages' = AddApp(messages, looped.value, apps[i])
                   /\ next_id' = looped.next_id
                   /\ i' = i + 1
                   /\ pc' = IF LoopDone(i + 1, apps) THEN "gate" ELSE "add"
                   /\ UNCHANGED <<exception, exit_status>>
    /\ UNCHANGED <<certVars, fetchVars, max_emails_to_send, dry_run, server,
                   j, sent, printed, returned, gate_evals>>

\* if emailer.num_messages() > config.max_emails_to_send: sys.exit(-1)
Gate ==
    /\ pc = "gate"
    /\ IF Exceeds(NumMessages(messages), max_emails_to_send)
       THEN pc' = "aborted" /\ exit_status' = "-1"
       ELSE pc' = "send_all" /\ exit_status' = exit_status
    /\ gate_evals' = gate_evals + 1
    /\ UNCHANGED <<certVars, fetchVars, max_emails_to_send, dry_run, server,
                   messages, contact, next_id, i, j, sent, printed, records,
                   exception, queries, returned>>

\* send_all: the check of the SMTP session before the loop.
SendAllEnter ==
    /\ pc = "send_all"
    /\ IF ~dry_run /\ server = "None"
       THEN pc' = "crashed" /\ exception' = "Exception" /\ exit_status' = "1" /\ j' = j
       ELSE pc' = "sending" /\ j' = 1 /\ UNCHANGED <<exception, exit_status>>
    /\ UNCHANGED <<certVars, fetchVars, max_emails_to_send, dry_run, server,
                   messages, contact, next_id, i, sent, printed, records,
                   queries, returned, gate_evals>>

\* A send_all whose dry run prints the message and sends it as well.
SendNextDespiteDryRun ==
    /\ pc = "sending"
    /\ j <= Len(messages)
    /\ LET message == PrepareMessage(messages[j].key, messages[j].apps)
       IN /\ printed' = IF dry_run THEN Append(printed, message) ELSE printed
          /\ sent' = Append(sent, message)
    /\ j' = j + 1
    /\ UNCHANGED <<pc, certVars, fetchVars, max_emails_to_send, dry_run, server,
                   messages, contact, next_id, i, records, exception, exit_status,
                   queries, returned, gate_evals>>

\* send_all: one iteration of the loop over _messages.items().
SendNext ==
    /\ pc = "sending"
    /\ j <= Len(messages)
    /\ LET message == PrepareMessage(messages[j].key, messages[j].apps)
       IN IF dry_run
          THEN printed' = Append(printed, message) /\ sent' = sent
          ELSE sent' = Append(sent, message) /\ printed' = printed
    /\ j' = j + 1
    /\ UNCHANGED <<pc, certVars, fetchVars, max_emails_to_send, dry_run, server,
                   messages, contact, next_id, i, records, exception, exit_status,
                   queries, returned, gate_evals>>

\* send_all returns and the script ends.
SendAllReturn ==
    /\ pc = "sending"
    /\ j > Len(messages)
    /\ pc' = "done"
    /\ exit_status' = "0"
    /\ UNCHANGED <<certVars, fetchVars, max_emails_to_send, dry_run, server,
                   messages, contact, next_id, i, j, sent, printed, records,
                   exception, queries, returned, gate_evals>>

Next == FetchExpiring \/ Add \/ Gate \/ SendAllEnter \/ SendNext \/ SendAllReturn

Spec == Init /\ [][Next]_vars

\* ------------------------------------------------ claims on the run (Spec)
AfterAdds == {"gate", "aborted", "send_all", "sending", "done"}

\* C1: when, all expiring applications added, the message count is above
\* max_emails_to_send, send_all is never entered, nothing is rendered, printed
\* or handed to the transport, and the run ends with the failure status.
C1_CeilingBlocksSending ==
    (pc \in AfterAdds /\ Len(messages) > max_emails_to_send) =>
        /\ pc \in {"gate", "aborted"}
        /\ j = 0
        /\ sent = <<>>
        /\ printed = <<>>
        /\ pc = "aborted" => exit_status = "-1"

\* The run was aborted by the gate with buckets from both applications.
C1_Witness ==
    /\ pc = "aborted"
    /\ Len(messages) > max_emails_to_send
    /\ max_emails_to_send > 0
    /\ exit_status = "-1"
    /\ sent = <<>>

\* A contact as the value the specification groups by.
ContactValue(c) == <<c.email, c.name>>

KeyValues(batch) == {ContactValue(batch[k].key) : k \in 1..Len(batch)}

ListValues(list) == {ContactValue(list[k]) : k \in 1..Len(list)}

\* C2: contacts are grouped by value: no two distinct keys of the batch have
\* the same email and the same name.
C2_KeysDistinctByValue ==
    \A k, l \in 1..Len(messages) :
        k /= l => ContactValue(messages[k].key) /= ContactValue(messages[l].key)

\* C6: every add changes num_messages() by exactly the number of contacts of
\* the application that were not yet keys of the batch (0, 1 or 2 for two
\* distinct contacts), a contact being its email and name.
C6_AddCountsNewContacts ==
    [][(pc = "add" /\ pc' \in {"add", "gate"}) =>
          NumMessages(messages') - NumMessages(messages)
              = Cardinality(ListValues(contact'[i].list) \ KeyValues(messages))]_vars

BucketIds(b) == [k \in 1..Len(b.apps) |-> b.apps[k].id]

IsAscending(seq) == \A k, l \in 1..Len(seq) : k < l => seq[k] < seq[l]

\* The contact values in the order the add calls first met them.
RECURSIVE FirstSeen(_, _)
FirstSeen(n, seen) ==
    IF n > Len(contact) THEN seen
    ELSE FirstSeen(n + 1,
            seen \o SelectSeq([k \in 1..Len(contact[n].list) |-> ContactValue(contact[n].list[k])],
                              LAMBDA v : v \notin {seen[m] : m \in 1..Len(seen)}))

\* C7: the applications of a bucket are in the order of the add calls, the
\* contacts of the batch are in first-seen order, and two applications added
\* for the same single contact make one message with both, in add order.
C7_AddOrder ==
    /\ \A k \in 1..Len(messages) : IsAscending(BucketIds(messages[k]))
    /\ [k \in 1..Len(messages) |-> ContactValue(messages[k].key)] = FirstSeen(1, <<>>)
    /\ (/\ i = 3
        /\ pc \in {"add", "gate"}
        /\ Len(contact[1].list) = 1
        /\ Len(contact[2].list) = 1
        /\ ContactValue(contact[1].list[1]) = ContactValue(contact[2].list[1]))
            => /\ NumMessages(messages) = 1
               /\ messages[1].apps = <<apps[1], apps[2]>>

InBuckets(app) ==
    \E k \in 1..Len(messages) : \E l \in 1..Len(messages[k].apps) : messages[k].apps[l] = app

\* C8: a contact lookup that does not return exactly one record ends the run
\* with the error: the failing application and the later ones are neither
\* resolved nor added, and nothing is sent, not even for the applications
\* added before.
C8_LookupFailureFatal ==
    \A k \in 1..Len(records) :
        records[k] \notin {NotAsked, 1} =>
            /\ pc = "crashed"
            /\ exception = "ValueError"
            /\ exit_status = "1"
            /\ i = k
            /\ sent = <<>>
            /\ printed = <<>>
            /\ \A l \in k..Len(apps) :
                  /\ ~contact[l].resolved
                  /\ l > k => records[l] = NotAsked
                  /\ ~InBuckets(apps[l])

\* The lookup of the second application failed after the first one had been
\* put into a bucket.
C8_Witness ==
    /\ pc = "crashed"
    /\ Len(records) >= 2
    /\ records[2] \in {0, 2}
    /\ Len(messages) > 0
    /\ sent = <<>>

Output == IF dry_run THEN printed ELSE sent

AppsOf(v) == {apps[k].id : k \in {n \in 1..Len(apps) : v \in ListValues(contact[n].list)}}

\* C9: within the ceiling, send_all hands off one combined message per
\* bucket, in batch order: as many hand-offs as num_messages(), and every
\* contact of the batch gets exactly one message, listing all of that
\* contact's applications.
C9_OneMessagePerContact ==
    pc = "done" =>
        /\ Len(Output) = NumMessages(messages)
        /\ \A k \in 1..Len(Output) :
              /\ Output[k].to = messages[k].key.email
              /\ [l \in 1..Len(Output[k].apps) |-> Output[k].apps[l].id] = BucketIds(messages[k])
        /\ \A v \in KeyValues(messages) :
              /\ Cardinality({k \in 1..Len(Output) :
                                <<Output[k].recipient.email, Output[k].recipient.name>> = v}) = 1
              /\ \A k \in 1..Len(Output) :
                    Output[k].to = v[1] =>
                        {Output[k].apps[l].id : l \in 1..Len(Output[k].apps)} = AppsOf(v)

\* C11: an add of an application whose contacts resolve to the empty list
\* leaves the batch as it was (no bucket created or extended, num_messages()
\* unchanged), raises nothing, and the run goes on with the next application
\* (or, after the last one, with the gate).
C11_EmptyContactsNoEffect ==
    [][(/\ pc = "add"
        /\ contact'[i] = Cached(<<>>)
        /\ exception' /= "FetchError")
       => /\ messages' = messages
          /\ NumMessages(messages') = NumMessages(messages)
          /\ exception' = "none"
          /\ exit_status' = "running"
          /\ i' = i + 1
          /\ pc' = IF i < Len(apps) THEN "add" ELSE "gate"]_vars

\* The first of two applications had no contact and the second was added.
C11_Witness ==
    /\ pc = "gate"
    /\ Len(apps) = 2
    /\ contact[1] = Cached(<<>>)
    /\ contact[2].list /= <<>>
    /\ InBuckets(apps[2])
    /\ ~InBuckets(apps[1])

\* The threshold is evaluated only after every add has completed, and no
\* message is put out before it was evaluated.
GateOrder ==
    /\ gate_evals >= 1
        => /\ i > Len(apps)
           /\ \A k \in 1..Len(apps) : contact[k].resolved
    /\ (j > 0 \/ sent /= <<>> \/ printed /= <<>>) => gate_evals >= 1

\* No add after the threshold was evaluated.
NoAddAfterGate ==
    gate_evals >= 1 => messages' = messages /\ contact' = contact /\ i' = i

RECURSIVE BatchAfter(_)
BatchAfter(k) ==
    IF k = 0 THEN <<>> ELSE AddApp(BatchAfter(k - 1), contact[k].list, apps[k])

\* The first n messages rendered from that batch.
Rendered(n) ==
    [k \in 1..n |-> PrepareMessage(BatchAfter(Len(apps))[k].key,
                                   BatchAfter(Len(apps))[k].apps)]

\* C14: dry mode is only an output switch.  The batch, the gate decision and
\* the sequence of rendered (recipient, applications) messages of a run are
\* the same function of its applications, their contacts and the ceiling
\* whatever dry_run is, so two runs that differ only in the flag agree on
\* them; the dry run hands no message to the transport and prints each one,
\* the live run hands every rendered message to the transport.
C14_DryRunOnlySwitchesOutput ==
    /\ pc \in {"add"} \cup AfterAdds => messages = BatchAfter(i - 1)
    /\ gate_evals = 1
        => (pc = "aborted" <=> Len(BatchAfter(Len(apps))) > max_emails_to_send)
    /\ pc \in {"sending", "done"}
        => IF dry_run
           THEN printed = Rendered(j - 1) /\ sent = <<>>
           ELSE sent = Rendered(j - 1) /\ printed = <<>>
    /\ pc = "done" => j - 1 = Len(BatchAfter(Len(apps)))
    /\ dry_run => sent = <<>>

\* A dry run has rendered and printed two messages and sent none.
C14_Witness ==
    /\ pc = "done"
    /\ dry_run
    /\ Len(printed) = 2
    /\ sent = <<>>

IsPrefix(s, t) == Len(s) <= Len(t) /\ \A k \in 1..Len(s) : s[k] = t[k]

\* No step removes a bucket or an application of a bucket: the buckets of
\* before are there after, under the same keys, each a prefix of its
\* successor.
BatchGrows ==
    /\ Len(messages) <= Len(messages')
    /\ \A k \in 1..Len(messages) :
          /\ messages'[k].key = messages[k].key
          /\ IsPrefix(messages[k].apps, messages'[k].apps)

\* C15: the batch only grows.  No operation (add, num_messages, send_all)
\* removes a contact key or an application from a bucket, every bucket after
\* a step has the bucket before the step as a prefix, and each contact (an
\* email and a name) appears at most once as a key.
C15_BatchOnlyGrows ==
    /\ [][BatchGrows]_vars
    /\ [](\A k, l \in 1..Len(messages) :
            ContactValue(messages[k].key) = ContactValue(messages[l].key) => k = l)

\* The (contact, application) pairs the messages put out carry: handed to
\* the transport in a live run, printed in a dry run.
PairsOut ==
    UNION {{<<<<Output[k].recipient.email, Output[k].recipient.name>>, Output[k].apps[l].id>> :
                l \in 1..Len(Output[k].apps)} : k \in 1..Len(Output)}

\* The applications get_apps built whose expirationDate is not none and not
\* after the deadline.
Eligible ==
    {n \in 1..Len(all_apps) :
        all_apps[n].expiration_date /= None /\ all_apps[n].expiration_date <= deadline}

\* The contacts the directory resolved for the application with this id.
ResolvedFor(id) ==
    UNION {ListValues(contact[k].list) : k \in {n \in 1..Len(apps) : apps[n].id = id}}

\* C16: end to end, once the gate has authorized sending and send_all has
\* returned, the (contact, application) pairs of the messages put out are
\* exactly the pairs of an application with a non-none expirationDate <=
\* deadline and a contact of its resolved list: no such application with a
\* contact is left out, none expiring later or without date is included.
C16_SentPairsAreExpiringPairs ==
    pc = "done"
    => /\ Ids(apps) = {all_apps[n].id : n \in Eligible}
       /\ PairsOut = UNION {{<<v, all_apps[n].id>> : v \in ResolvedFor(all_apps[n].id)} :
                               n \in Eligible}

\* Of two applications one expires after the deadline; the owner and the
\* administrator group of the other were sent a message each.
C16_Witness ==
    /\ pc = "done"
    /\ ~dry_run
    /\ Len(all_apps) = 2
    /\ Len(apps) = 1
    /\ Len(contact[1].list) = 2
    /\ Len(sent) = 2

\* ---------------------------------------------------------- SpecContacts
\* Up to MaxReads reads of the contacts of up to MaxApps App objects, in any
\* order.  No caller of the property catches what it raises (emailer.py 27
\* and 30, notify_app_owners.py 110-112): a read that raises is the last one.
InitContacts ==
    /\ pc = "read"
    /\ IdleCert
    /\ IdleFetch
    /\ max_emails_to_send = 0
    /\ dry_run = TRUE
    /\ server = "None"
    /\ messages = <<>>
    /\ \E n \in 1..MaxApps :
        /\ contact = [k \in 1..n |-> Unresolved]
        /\ records = [k \in 1..n |-> NotAsked]
        /\ queries = [k \in 1..n |-> 0]
    /\ next_id = 1
    /\ i = 0
    /\ j = 0
    /\ sent = <<>>
    /\ printed = <<>>
    /\ exception = "none"
    /\ exit_status = "running"
    /\ returned = <<>>
    /\ gate_evals = 0

\* app.contacts is read on the k-th App object.
ReadContacts ==
    /\ pc = "read"
    /\ Len(returned) < MaxReads
    /\ \E k \in 1..Len(contact) : \E ans \in DirectoryAnswers :
        LET r == ContactsRead(contact[k], ans, next_id)
        IN /\ contact' = [contact EXCEPT ![k] = r.cache]
           /\ queries' = [queries EXCEPT ![k] = @ + r.queried]
           /\ records' = [records EXCEPT ![k] = IF r.queried = 0 THEN @ ELSE ans.n]
           /\ next_id' = r.next_id
           /\ returned' = Append(returned, [app |-> k, exc |-> r.exc, value |-> r.value,
                                            queried |-> r.queried])
           /\ exception' = r.exc
           /\ pc' = IF r.exc = "none" THEN "read" ELSE "raised"
    /\ UNCHANGED <<certVars, fetchVars, max_emails_to_send, dry_run, server,
                   messages, i, j, sent, printed, exit_status, gate_evals>>

NextContacts == ReadContacts

SpecContacts == InitContacts /\ [][NextContacts]_vars

\* C12: contact resolution is memoized per application.  Over the reads of
\* an application's contacts the directory is queried for it at most once,
\* and once a read has returned a list (the empty one included) every later
\* read of that application returns that same list and sends no query.
C12_ResolvedAtMostOnce ==
    /\ \A k \in 1..Len(queries) : queries[k] <= 1
    /\ \A m \in 1..Len(returned) : \A n \in 1..Len(returned) :
          (m < n /\ returned[m].app = returned[n].app /\ returned[m].exc = "none")
          => /\ returned[n].exc = "none"
             /\ returned[n].value = returned[m].value
             /\ returned[n].queried = 0

\* One application returned the empty list twice, and then another one
\* returned its owner.
C12_Witness ==
    /\ Len(returned) = 3
    /\ returned[1].app = 1 /\ returned[1].value = <<>> /\ returned[1].exc = "none"
    /\ returned[2].app = 1 /\ returned[2].exc = "none"
    /\ returned[3].app = 2 /\ Len(returned[3].value) = 1
    /\ queries = <<1, 1>>

\* C17: a failed contact resolution leaves the application's contact cache
\* unresolved.  If a read of App.contacts raises at any point of the
\* resolution (record count other than 1, or the fetch of the owner or of
\* the administrator group fails), self._contact is still None afterwards,
\* so that a later read would resolve again instead of returning an empty or
\* partial list as if the resolution had succeeded.
C17_FailedResolutionNotCached ==
    \A m \in 1..Len(returned) :
        returned[m].exc /= "none" => contact[returned[m].app] = Unresolved

====================================================================
